---- MODULE Spec2Model ----
(***************************************************************************)
(* DRC-20 indexer (src/indexer/drc20-indexer-public.ts): the SQLite ledger  *)
(* (tokens, transactions, balances, indexer_state) and the continuous      *)
(* scanner (quickScan -> initialScan -> continuousMonitoring ->             *)
(* scanBlockRange -> parseDRC20FromHex / saveTransaction).                  *)
(*                                                                         *)
(* Strings whose content the code inspects (tick, max, lim, amt) are        *)
(* tuples of one-character strings, so that toUpperCase and SQLite's        *)
(* CAST(... AS INTEGER) are computed character by character.                *)
(***************************************************************************)
EXTENDS Integers, Sequences, FiniteSets, TLC

(* ------------------------------ bounds --------------------------------- *)
\* number of blocks the node mines inside the modelled window
MaxBlocks == 2
\* number of times the scanner process is killed and started again
MaxRestarts == 1
\* number of node or database calls that fail
MaxFailures == 1
\* rows the site writes to site_transactions
MaxSiteRows == 2
\* calls of verifyTransactionCounts
MaxVerifications == 1

(* ------------------------- program constants --------------------------- *)
\* initialScan: startBlock = Math.max(5700000, currentHeight - 5000)
FirstRunFloor == 5700000
FirstRunWindow == 5000
\* parseDRC20FromHex: OP_RETURN, largest direct push, OP_PUSHDATA1
OP_RETURN == 106
MaxDirectPush == 75
OP_PUSHDATA1 == 76
\* the protocol's size limit of a JSON payload, in bytes
MaxPayloadBytes == 80

(* ------------------------------ strings -------------------------------- *)
LowerCase == <<"a","b","c","d","e","f","g","h","i","j","k","l","m",
               "n","o","p","q","r","s","t","u","v","w","x","y","z">>
UpperCase == <<"A","B","C","D","E","F","G","H","I","J","K","L","M",
               "N","O","P","Q","R","S","T","U","V","W","X","Y","Z">>
Digits == <<"0","1","2","3","4","5","6","7","8","9">>

\* String.prototype.toUpperCase, one character
UpperChar(c) ==
  IF \E i \in 1..Len(LowerCase) : LowerCase[i] = c
    THEN UpperCase[CHOOSE i \in 1..Len(LowerCase) : LowerCase[i] = c]
    ELSE c

\* String.prototype.toUpperCase
toUpperCase(s) == [i \in 1..Len(s) |-> UpperChar(s[i])]

IsDigit(c) == \E i \in 1..Len(Digits) : Digits[i] = c
DigitValue(c) == (CHOOSE i \in 1..Len(Digits) : Digits[i] = c) - 1

\* value of the longest prefix of decimal digits of s, read after acc
RECURSIVE DigitPrefix(_, _)
DigitPrefix(s, acc) ==
  IF s = <<>> \/ ~IsDigit(Head(s)) THEN acc
  ELSE DigitPrefix(Tail(s), acc * 10 + DigitValue(Head(s)))

\* SQLite CAST(text AS INTEGER): optional sign, then the longest digit
\* prefix; text with no such prefix casts to 0
CastInteger(s) ==
  IF s # <<>> /\ Head(s) = "-" THEN 0 - DigitPrefix(Tail(s), 0)
  ELSE IF s # <<>> /\ Head(s) = "+" THEN DigitPrefix(Tail(s), 0)
  ELSE DigitPrefix(s, 0)

(* ------------------------- JSON payload objects ------------------------ *)
\* A parsed payload object is a function from the keys it has to their
\* values; a key the object lacks reads as undefined in JavaScript.
Has(data, k) == k \in DOMAIN data
\* JavaScript truthiness of data[k]: present and not the empty string
\* (tick, max, lim and amt are character tuples, op is a plain string)
Truthy(data, k) == Has(data, k) /\ data[k] # (IF k = "op" THEN "" ELSE <<>>)
\* JavaScript  data[k] || '0'
OrZero(data, k) == IF Truthy(data, k) THEN data[k] ELSE <<"0">>

\* The text after the push header: a JSON object, or text JSON.parse rejects
JsonObject(obj) == [kind |-> "object", obj |-> obj]
NotJson == [kind |-> "garbage"]

\* scriptPubKey.hex of a null-data output: the bytes before the JSON text
\* (opcode and push header) and the text itself
Script(head, text) == [head |-> head, text |-> text]

\* number of bytes of JSON.stringify(obj): braces, and for every key the
\* quoted key, the colon and the quoted value, separated by commas (the keys
\* and values used are ASCII without characters to escape)
RECURSIVE MembersLength(_, _)
MembersLength(obj, keys) ==
  IF keys = {} THEN 0
  ELSE LET k == CHOOSE x \in keys : TRUE
       IN Len(k) + Len(obj[k]) + 5 + MembersLength(obj, keys \ {k})
ByteLength(obj) ==
  2 + MembersLength(obj, DOMAIN obj) + (Cardinality(DOMAIN obj) - 1)

\* the bytes in front of a pushed payload of `len` bytes: OP_RETURN and a
\* direct push, or OP_RETURN, OP_PUSHDATA1 and a one-byte length
PushHeader(len, form) ==
  IF form = "direct" THEN <<OP_RETURN, len>> ELSE <<OP_RETURN, OP_PUSHDATA1, len>>
\* the script carrying JSON.stringify(obj) in the given push form
EncodeScript(obj, form) == Script(PushHeader(ByteLength(obj), form), JsonObject(obj))
\* the shortest push form of a payload
MinimalForm(obj) == IF ByteLength(obj) <= MaxDirectPush THEN "direct" ELSE "pushdata1"

(* -------------------------- parseDRC20FromHex -------------------------- *)
\* SkippedBytes slicing the same two bytes off a 0x4c push as off a direct
\* push, leaving the length byte in front of the text
SkippedBytesNoLengthByte(head) ==
  IF head # <<>> /\ head[1] = OP_RETURN
    THEN IF Len(head) < 2 THEN 0 - 1
         ELSE IF head[2] <= MaxDirectPush THEN 2
         ELSE IF head[2] = OP_PUSHDATA1 THEN 2
         ELSE 0 - 1
    ELSE 0

\* number of leading bytes parseDRC20FromHex slices off before decoding;
\* -1 when it returns null on the length byte (parseInt of a missing byte
\* is NaN, which fails both comparisons)
SkippedBytes(head) ==
  IF head # <<>> /\ head[1] = OP_RETURN
    THEN IF Len(head) < 2 THEN 0 - 1
         ELSE IF head[2] <= MaxDirectPush THEN 2
         ELSE IF head[2] = OP_PUSHDATA1 THEN 3
         ELSE 0 - 1
    ELSE 0

Null == [null |-> TRUE]

\* the bytes JSON.parse skips in front of a value: tab, LF, CR, space
JsonWhitespace == {9, 10, 13, 32}

\* parseDRC20FromHex(opReturnHex): the payload object, or Null.  JSON.parse
\* throws when the slice cuts into the text, or leaves header bytes other
\* than whitespace in front of it.
parseDRC20FromHex(hex) ==
  LET skip == SkippedBytes(hex.head) IN
  IF skip < 0 THEN Null
  ELSE IF Len(hex.head) < skip THEN Null
  ELSE IF \E i \in (skip + 1)..Len(hex.head) : hex.head[i] \notin JsonWhitespace THEN Null
  ELSE IF hex.text.kind # "object" THEN Null
  ELSE LET data == hex.text.obj IN
       IF Has(data, "p") /\ data.p = "drc-20" /\ Truthy(data, "op") /\ Truthy(data, "tick")
         THEN data ELSE Null

(* ---------------------------- parseDRC20Json --------------------------- *)
\* parseDRC20Json(opReturnHex) of the class: the first two bytes are sliced
\* off whatever they are, the rest is decoded and parsed, and the object is
\* returned when p is 'drc20' and op is deploy or mint
parseDRC20Json(hex) ==
  IF Len(hex.head) < 2 THEN Null
  ELSE IF \E i \in 3..Len(hex.head) : hex.head[i] \notin JsonWhitespace THEN Null
  ELSE IF hex.text.kind # "object" THEN Null
  ELSE LET data == hex.text.obj IN
       IF Has(data, "p") /\ data.p = "drc20" /\ Has(data, "op")
          /\ data.op \in {"deploy", "mint"}
         THEN data ELSE Null

(* ------------------------------ the chain ------------------------------ *)
DeployJson(tick, max, lim) ==
  JsonObject([p |-> "drc-20", op |-> "deploy", tick |-> tick, max |-> max, lim |-> lim])
MintJson(tick, amt) ==
  JsonObject([p |-> "drc-20", op |-> "mint", tick |-> tick, amt |-> amt])
\* a payload of another protocol in a null-data output
OtherJson == JsonObject([p |-> "brc-20", op |-> "mint", tick |-> <<"D","O","G">>])

\* one element of tx.vout as `getblock <hash> 2` prints it
NullDataOut(len, text) ==
  [scriptPubKey |-> [type |-> "nulldata", hex |-> Script(<<OP_RETURN, len>>, text)]]
PayOut(addr) ==
  [scriptPubKey |-> [type |-> "pubkeyhash", addresses |-> <<addr>>]]

\* the output lists (tx.vout) transactions are drawn from
DeployTx ==
  <<NullDataOut(61, DeployJson(<<"D","O","G">>, <<"2">>, <<"1">>)), PayOut("a1")>>
MintTx ==
  <<NullDataOut(39, OtherJson),
    NullDataOut(49, MintJson(<<"d","o","g">>, <<"3">>)), PayOut("a1")>>
DeployMintTx ==
  <<NullDataOut(61, DeployJson(<<"D","o","g">>, <<"3">>, <<"3">>)),
    NullDataOut(49, MintJson(<<"D","O","G">>, <<"1">>)), PayOut("a2")>>

\* the blocks the node may mine, each the list of tx.vout of its transactions
BlockShapes == { <<DeployTx>>, <<MintTx>>, <<DeployMintTx>>, <<MintTx, DeployTx>> }

\* a null-data output carrying obj in its shortest push
PayloadOut(obj) ==
  [scriptPubKey |-> [type |-> "nulldata", hex |-> EncodeScript(obj, MinimalForm(obj))]]

CAT == <<"C","A","T">>
Memo == [i \in 1..22 |-> "x"]

\* transactions with the address their inputs are spent from
CatDeployTx ==
  [ from |-> "a0",
    vout |-> <<PayloadOut([p |-> "drc-20", op |-> "deploy", tick |-> CAT,
                           max |-> <<"5">>, lim |-> <<"2">>]), PayOut("a1")>> ]
\* lim above max
BadDeployTx ==
  [ from |-> "a0",
    vout |-> <<PayloadOut([p |-> "drc-20", op |-> "deploy", tick |-> <<"B","A","D">>,
                           max |-> <<"1">>, lim |-> <<"2">>]), PayOut("a1")>> ]
\* no lim
NoLimDeployTx ==
  [ from |-> "a0",
    vout |-> <<PayloadOut([p |-> "drc-20", op |-> "deploy", tick |-> <<"N","E","W">>,
                           max |-> <<"3">>]), PayOut("a1")>> ]
CatMint2Tx ==
  [ from |-> "a0",
    vout |-> <<PayloadOut([p |-> "drc-20", op |-> "mint", tick |-> <<"c","a","t">>,
                           amt |-> <<"2">>]), PayOut("a1")>> ]
CatMint1Tx ==
  [ from |-> "a0",
    vout |-> <<PayloadOut([p |-> "drc-20", op |-> "mint", tick |-> CAT,
                           amt |-> <<"1">>]), PayOut("a1")>> ]
CatTransferTx ==
  [ from |-> "a1",
    vout |-> <<PayloadOut([p |-> "drc-20", op |-> "transfer", tick |-> CAT,
                           amt |-> <<"1">>]), PayOut("a2")>> ]
\* a mint with no output after its payload output
UnboundMintTx ==
  [ from |-> "a0",
    vout |-> <<PayOut("a1"),
               PayloadOut([p |-> "drc-20", op |-> "mint", tick |-> CAT,
                           amt |-> <<"1">>])>> ]
\* a mint whose JSON text is 81 bytes long
LongMintTx ==
  [ from |-> "a0",
    vout |-> <<PayloadOut([p |-> "drc-20", op |-> "mint", tick |-> CAT,
                           amt |-> <<"1">>, memo |-> Memo]), PayOut("a1")>> ]

\* two mints in one transaction, each followed by the output it is bound to
TwoMintsTx ==
  [ from |-> "a0",
    vout |-> <<PayloadOut([p |-> "drc-20", op |-> "mint", tick |-> CAT,
                           amt |-> <<"1">>]), PayOut("a1"),
               PayloadOut([p |-> "drc-20", op |-> "mint", tick |-> CAT,
                           amt |-> <<"2">>]), PayOut("a2")>> ]
\* an op the protocol does not have
BurnTx ==
  [ from |-> "a1",
    vout |-> <<PayloadOut([p |-> "drc-20", op |-> "burn", tick |-> CAT,
                           amt |-> <<"1">>]), PayOut("a1")>> ]
\* mints without amt and with a negative amt
NoAmtMintTx ==
  [ from |-> "a0",
    vout |-> <<PayloadOut([p |-> "drc-20", op |-> "mint", tick |-> CAT]),
               PayOut("a1")>> ]
NegativeMintTx ==
  [ from |-> "a0",
    vout |-> <<PayloadOut([p |-> "drc-20", op |-> "mint", tick |-> CAT,
                           amt |-> <<"-","1">>]), PayOut("a1")>> ]

\* the blocks of the richer chain, each the list of its transactions
RichBlocks ==
  { <<CatDeployTx>>, <<BadDeployTx>>, <<NoLimDeployTx>>, <<CatMint2Tx>>,
    <<CatMint1Tx>>, <<CatTransferTx>>, <<UnboundMintTx>>, <<LongMintTx>>,
    <<CatDeployTx, CatMint2Tx>>, <<CatMint2Tx, CatMint1Tx>>,
    <<TwoMintsTx>>, <<BurnTx>>, <<NoAmtMintTx>>, <<NegativeMintTx>> }

\* block hashes: the checkpoint's '' is the empty tuple
BlockHash(height) == <<height>>
EmptyHash == <<>>

\* the JSON of `getblock <hash> 2` for a block mined at `height`
MakeBlock(height, shape) ==
  [ hash |-> BlockHash(height),
    previousblockhash |-> BlockHash(height - 1),
    tx |-> [i \in 1..Len(shape) |-> [txid |-> <<height, i>>, vout |-> shape[i]]] ]

\* the same for a block of transactions that name the address their inputs
\* are spent from
MakeRichBlock(height, shape) ==
  [ hash |-> BlockHash(height),
    previousblockhash |-> BlockHash(height - 1),
    tx |-> [i \in 1..Len(shape) |->
              [ txid |-> <<height, i>>,
                vin |-> <<[address |-> shape[i].from]>>,
                vout |-> shape[i].vout ]] ]

(* ------------------------------- state --------------------------------- *)
VARIABLES
  chain,              \* the node's blocks from height FirstRunFloor upwards
  tokens,             \* table tokens
  transactions,       \* table transactions
  balances,           \* table balances
  indexer_state,      \* table indexer_state: NoRow or the row with id = 1
  pc,                 \* where the scanner process is
  currentHeight,      \* initialScan / continuousMonitoring: currentHeight
  blockHeight,        \* scanBlockRange: loop variable
  pending,            \* scanBlockRange: payloads of the fetched block not yet saved
  drc20Transactions,  \* scanBlockRange: payloads found in this call
  blockOk,            \* every saveTransaction of the block being scanned returned true
  savedHeights,       \* history: heights fetched with every payload's save returning true
  firstStartBlock,    \* history: startBlock of the first scanBlockRange call, 0 before it
  restarts,           \* number of times the process was started again
  failures,           \* number of node or database calls that have failed
  site_transactions,  \* table site_transactions
  verification_stats, \* table verification_stats, rows in id order
  verification,       \* what the last verifyTransactionCounts call returned
  opReturnHex,        \* the script last handed to parseDRC20FromHex by itself
  parsed,             \* what that call returned
  classParsed,        \* what parseDRC20Json returned for the same script
  drc20_transactions, \* table drc20_transactions, which another program may have created
  recorded            \* how the last recordSiteTransaction call ended

vars == <<chain, tokens, transactions, balances, indexer_state, pc, currentHeight,
          blockHeight, pending, drc20Transactions, blockOk, savedHeights,
          firstStartBlock, restarts, failures, site_transactions,
          verification_stats, verification, opReturnHex, parsed,
          classParsed,
          drc20_transactions, recorded>>

ledger == <<tokens, transactions, balances>>
history == <<savedHeights, firstStartBlock>>
locals == <<currentHeight, blockHeight, pending, drc20Transactions, blockOk>>
budget == <<restarts, failures>>
audit == <<site_transactions, verification_stats, verification,
           drc20_transactions, recorded>>
codec == <<opReturnHex, parsed, classParsed>>

\* the outcomes of a step that calls the node and the database: both
\* succeed, the node call fails, or the database call fails
Outcomes == IF failures < MaxFailures THEN {"ok", "rpcError", "dbError"} ELSE {"ok"}
RpcOutcomes == Outcomes \ {"dbError"}
DbOutcomes == Outcomes \ {"rpcError"}
Count(outcome) == failures' = IF outcome = "ok" THEN failures ELSE failures + 1

NoRow == [height |-> 0 - 1]
\* no call has been made yet
NoCall == [called |-> FALSE]
\* the database has no such table
NoTable == [exists |-> FALSE, rows |-> {}]

\* `dogecoin-cli getblockcount`
NodeHeight == FirstRunFloor + Len(chain) - 1

\* `dogecoin-cli getblock <hash of height> 2`; blocks below the window carry
\* no payload
BlockAt(height) ==
  IF height >= FirstRunFloor THEN chain[height - FirstRunFloor + 1]
  ELSE MakeBlock(height, <<>>)

(* --------------------------- ledger queries ---------------------------- *)
\* isTokenDeployed(tick): SELECT tick FROM tokens WHERE tick = upper(tick)
isTokenDeployed(tks, tick) == \E t \in tks : t.tick = toUpperCase(tick)

\* getToken(tick): the row of tick (tick is the primary key)
getToken(tks, tick) == CHOOSE t \in tks : t.tick = toUpperCase(tick)

RECURSIVE SumAmount(_)
SumAmount(rows) ==
  IF rows = {} THEN 0
  ELSE LET r == CHOOSE x \in rows : TRUE
       IN CastInteger(r.amount) + SumAmount(rows \ {r})

\* the rows getTokenStats aggregates
ValidMints(txs, tick) ==
  { r \in txs : r.tick = toUpperCase(tick) /\ r.operation = "mint" /\ r.is_valid = 1 }

\* getTokenStats(tick): SUM(CAST(amount AS INTEGER)) and COUNT(*) of the
\* valid mint rows of the tick
getTokenStats(txs, tick) ==
  [ totalMinted |-> SumAmount(ValidMints(txs, tick)),
    totalTransactions |-> Cardinality(ValidMints(txs, tick)) ]

RECURSIVE SumBalance(_)
SumBalance(rows) ==
  IF rows = {} THEN 0
  ELSE LET r == CHOOSE x \in rows : TRUE
       IN CastInteger(r.balance) + SumBalance(rows \ {r})

\* sum of the balances table over one tick
TickBalance(bals, tick) == SumBalance({ b \in bals : b.tick = toUpperCase(tick) })

(* --------------------------- saveTransaction --------------------------- *)
\* INSERT OR IGNORE INTO tokens: ignored when the tick (PRIMARY KEY) or the
\* deploy_txid (UNIQUE) is already there
InsertToken(tks, blk, txid, data) ==
  IF \E t \in tks : t.tick = toUpperCase(data.tick) \/ t.deploy_txid = txid
    THEN tks
    ELSE tks \cup { [ tick |-> toUpperCase(data.tick),
                      max_supply |-> OrZero(data, "max"),
                      mint_limit |-> OrZero(data, "lim"),
                      deploy_txid |-> txid,
                      deploy_block |-> blk ] }

\* INSERT OR IGNORE INTO transactions: ignored when the txid (UNIQUE) is
\* already there
InsertMint(txs, blk, txid, data) ==
  IF \E r \in txs : r.txid = txid
    THEN txs
    ELSE txs \cup { [ txid |-> txid,
                      block_height |-> blk,
                      operation |-> data.op,
                      tick |-> toUpperCase(data.tick),
                      amount |-> OrZero(data, "amt"),
                      raw_json |-> data,
                      is_blackdoge_tx |-> 0,
                      is_valid |-> 1 ] }

\* saveTransaction with the mint branch not asking isTokenDeployed: every
\* mint is inserted, whether or not its tick has a token record
saveTransactionAnyMint(tks, txs, blk, txid, data, dbOk) ==
  IF data.op = "deploy"
    THEN [ tokens |-> IF dbOk THEN InsertToken(tks, blk, txid, data) ELSE tks,
           transactions |-> txs ]
  ELSE IF data.op = "mint" /\ dbOk
    THEN [ tokens |-> tks,
           transactions |-> InsertMint(txs, blk, txid, data) ]
  ELSE [ tokens |-> tks, transactions |-> txs ]

\* saveTransaction(blockHeight, txid, drc20Data, opReturnHex) on the tables
\* (tks, txs): the tables afterwards (the caller ignores the value
\* returned).  dbOk = FALSE is a failing database call: isTokenDeployed then
\* answers false and a failing INSERT is caught, so nothing is written.
saveTransaction(tks, txs, blk, txid, data, dbOk) ==
  IF data.op = "deploy"
    THEN [ tokens |-> IF dbOk THEN InsertToken(tks, blk, txid, data) ELSE tks,
           transactions |-> txs ]
  ELSE IF data.op = "mint" /\ dbOk /\ isTokenDeployed(tks, data.tick)
    THEN [ tokens |-> tks,
           transactions |-> InsertMint(txs, blk, txid, data) ]
  ELSE [ tokens |-> tks, transactions |-> txs ]

(* ---------------------------- scanBlockRange --------------------------- *)
\* the payloads of one transaction, in output order: the null-data outputs
\* whose script parseDRC20FromHex accepts
TxPayloads(tx, height) ==
  LET found == SelectSeq(tx.vout, LAMBDA v :
                 /\ v.scriptPubKey.type = "nulldata"
                 /\ parseDRC20FromHex(v.scriptPubKey.hex) # Null)
  IN [ i \in 1..Len(found) |->
         [ blockHeight |-> height,
           txid |-> tx.txid,
           data |-> parseDRC20FromHex(found[i].scriptPubKey.hex),
           hex |-> found[i].scriptPubKey.hex ] ]

\* the payloads of the transactions txs[from..], in block order
RECURSIVE PayloadsFrom(_, _, _)
PayloadsFrom(txs, from, height) ==
  IF from > Len(txs) THEN <<>>
  ELSE TxPayloads(txs[from], height) \o PayloadsFrom(txs, from + 1, height)

BlockPayloads(block, height) == PayloadsFrom(block.tx, 1, height)

\* where the for loop of scanBlockRange goes after finishing height h
AfterBlock(h) == IF h + 1 <= currentHeight THEN "fetch" ELSE "update"

(* ------------------------------ actions -------------------------------- *)
Init ==
  /\ chain = <<>>
  /\ tokens = {}
  /\ transactions = {}
  /\ balances = {}
  /\ indexer_state = NoRow
  /\ pc = "start"
  /\ currentHeight = 0
  /\ blockHeight = 0
  /\ pending = <<>>
  /\ drc20Transactions = <<>>
  /\ blockOk = TRUE
  /\ savedHeights = {}
  /\ firstStartBlock = 0
  /\ restarts = 0
  /\ failures = 0
  /\ site_transactions = {}
  /\ verification_stats = <<>>
  /\ verification = NoCall
  /\ drc20_transactions = NoTable
  /\ recorded = NoCall
  /\ opReturnHex = NoCall
  /\ parsed = NoCall
  /\ classParsed = NoCall

\* the node accepts a new block
MineBlock ==
  /\ Len(chain) < MaxBlocks
  /\ \E shape \in BlockShapes :
       chain' = Append(chain, MakeBlock(NodeHeight + 1, shape))
  /\ UNCHANGED <<ledger, indexer_state, pc, locals, history, budget>>
  /\ UNCHANGED <<audit, codec>>

\* quickScan: initializeDatabase, then initialScan or give up
InitializeDatabase ==
  /\ pc = "start"
  /\ \E outcome \in DbOutcomes :
       /\ pc' = IF outcome = "ok" THEN "initialScan" ELSE "exited"
       /\ Count(outcome)
  /\ UNCHANGED <<chain, ledger, indexer_state, locals, history, restarts>>
  /\ UNCHANGED <<audit, codec>>

\* getLastProcessedBlock(): last_block_height, or null (modelled as 0: the
\* code tests the value for truthiness) when there is no row or the query
\* fails
getLastProcessedBlock(dbOk) ==
  IF dbOk /\ indexer_state # NoRow THEN indexer_state.last_block_height ELSE 0

Max(a, b) == IF a >= b THEN a ELSE b

\* entry into scanBlockRange(startBlock, endBlock = height)
StartRange(startBlock, height) ==
  /\ pc' = "fetch"
  /\ currentHeight' = height
  /\ blockHeight' = startBlock
  /\ pending' = <<>>
  /\ drc20Transactions' = <<>>
  /\ blockOk' = TRUE
  /\ firstStartBlock' = IF firstStartBlock = 0 THEN startBlock ELSE firstStartBlock

\* initialScan up to the call of scanBlockRange
InitialScan ==
  /\ pc = "initialScan"
  /\ \E outcome \in Outcomes :
       LET lastProcessed == getLastProcessedBlock(outcome # "dbError")
           startBlock == IF lastProcessed # 0 THEN lastProcessed + 1
                         ELSE Max(FirstRunFloor, NodeHeight - FirstRunWindow)
       IN /\ Count(outcome)
          /\ IF outcome # "rpcError" /\ startBlock <= NodeHeight
               THEN StartRange(startBlock, NodeHeight)
               ELSE /\ pc' = "monitor"
                    /\ UNCHANGED <<locals, firstStartBlock>>
  /\ UNCHANGED <<chain, ledger, indexer_state, savedHeights, restarts>>
  /\ UNCHANGED <<audit, codec>>

\* continuousMonitoring without the catch block: an error ends the loop
ContinuousMonitoringNoCatch ==
  /\ pc = "monitor"
  /\ \E outcome \in Outcomes :
       LET stored == getLastProcessedBlock(outcome # "dbError")
           lastProcessed == IF stored # 0 THEN stored ELSE NodeHeight - 1
       IN /\ Count(outcome)
          /\ IF outcome = "rpcError"
               THEN /\ pc' = "exited"
                    /\ UNCHANGED <<locals, firstStartBlock>>
               ELSE IF NodeHeight > lastProcessed
                 THEN StartRange(lastProcessed + 1, NodeHeight)
                 ELSE UNCHANGED <<pc, locals, firstStartBlock>>
  /\ UNCHANGED <<chain, ledger, indexer_state, savedHeights, restarts>>
  /\ UNCHANGED <<audit, codec>>

\* one iteration of continuousMonitoring up to the call of scanBlockRange
ContinuousMonitoring ==
  /\ pc = "monitor"
  /\ \E outcome \in Outcomes :
       LET stored == getLastProcessedBlock(outcome # "dbError")
           lastProcessed == IF stored # 0 THEN stored ELSE NodeHeight - 1
       IN /\ Count(outcome)
          /\ IF outcome # "rpcError" /\ NodeHeight > lastProcessed
               THEN StartRange(lastProcessed + 1, NodeHeight)
               ELSE UNCHANGED <<pc, locals, firstStartBlock>>
  /\ UNCHANGED <<chain, ledger, indexer_state, savedHeights, restarts>>
  /\ UNCHANGED <<audit, codec>>

\* scanBlockRange: getblockhash and getblock of blockHeight; a failing call
\* is caught and the loop goes on with the next height
FetchBlock ==
  /\ pc = "fetch"
  /\ \E outcome \in RpcOutcomes :
       /\ Count(outcome)
       /\ IF outcome = "ok" /\ blockHeight <= NodeHeight
         THEN LET found == BlockPayloads(BlockAt(blockHeight), blockHeight) IN
              /\ pending' = found
              /\ IF found = <<>>
                   THEN /\ pc' = AfterBlock(blockHeight)
                        /\ blockHeight' = blockHeight + 1
                        /\ savedHeights' = savedHeights \cup {blockHeight}
                   ELSE /\ pc' = "outputs"
                        /\ UNCHANGED <<blockHeight, savedHeights>>
         ELSE /\ pc' = AfterBlock(blockHeight)
              /\ blockHeight' = blockHeight + 1
              /\ UNCHANGED <<pending, savedHeights>>
  /\ UNCHANGED <<chain, ledger, indexer_state, currentHeight, drc20Transactions,
                 blockOk, firstStartBlock, restarts>>
  /\ UNCHANGED <<audit, codec>>

\* scanBlockRange: the next payload of the block is pushed to
\* drc20Transactions and handed to saveTransaction
SavePayload ==
  /\ pc = "outputs"
  /\ \E outcome \in DbOutcomes :
       LET dbOk == outcome = "ok"
           found == Head(pending)
           after == saveTransaction(tokens, transactions, found.blockHeight,
                                    found.txid, found.data, dbOk)
           last == Len(pending) = 1
       IN /\ Count(outcome)
          /\ tokens' = after.tokens
          /\ transactions' = after.transactions
          /\ drc20Transactions' = Append(drc20Transactions, found)
          /\ pending' = Tail(pending)
          /\ pc' = IF last THEN AfterBlock(blockHeight) ELSE "outputs"
          /\ blockHeight' = IF last THEN blockHeight + 1 ELSE blockHeight
          /\ blockOk' = IF last THEN TRUE ELSE blockOk /\ dbOk
          /\ savedHeights' = IF last /\ blockOk /\ dbOk
                               THEN savedHeights \cup {blockHeight}
                               ELSE savedHeights
  /\ UNCHANGED <<chain, balances, indexer_state, currentHeight, firstStartBlock,
                 restarts>>
  /\ UNCHANGED <<audit, codec>>

\* updateLastProcessedBlock(currentHeight) after scanBlockRange returned; a
\* failing INSERT OR REPLACE is caught and only logged
UpdateLastProcessedBlock ==
  /\ pc = "update"
  /\ \E outcome \in DbOutcomes :
       /\ Count(outcome)
       /\ indexer_state' = IF outcome = "ok"
                             THEN [ last_block_height |-> currentHeight,
                                    last_block_hash |-> EmptyHash ]
                             ELSE indexer_state
  /\ pc' = "monitor"
  /\ UNCHANGED <<chain, ledger, locals, history, restarts>>
  /\ UNCHANGED <<audit, codec>>

\* the process is killed (or has exited) and quickScan is run again; the
\* database file stays
Restart ==
  /\ restarts < MaxRestarts
  /\ restarts' = restarts + 1
  /\ pc' = "start"
  /\ currentHeight' = 0
  /\ blockHeight' = 0
  /\ pending' = <<>>
  /\ drc20Transactions' = <<>>
  /\ blockOk' = TRUE
  /\ UNCHANGED <<chain, ledger, indexer_state, history, failures>>
  /\ UNCHANGED <<audit, codec>>

Next ==
  \/ MineBlock
  \/ InitializeDatabase
  \/ InitialScan
  \/ ContinuousMonitoring
  \/ FetchBlock
  \/ SavePayload
  \/ UpdateLastProcessedBlock
  \/ Restart

Spec == Init /\ [][Next]_vars

(* ---------------------- a node that loses blocks ---------------------- *)
\* the node drops its tip (it is resynchronising, or the scanner now talks
\* to a node that is behind): getblockcount reports a lower height
Rewind ==
  /\ Len(chain) > 1
  /\ chain' = SubSeq(chain, 1, Len(chain) - 1)
  /\ UNCHANGED <<ledger, indexer_state, pc, locals, history, budget>>
  /\ UNCHANGED <<audit, codec>>

NextRewind ==
  \/ MineBlock
  \/ Rewind
  \/ InitializeDatabase
  \/ InitialScan
  \/ ContinuousMonitoring
  \/ FetchBlock
  \/ SavePayload
  \/ UpdateLastProcessedBlock
  \/ Restart

SpecRewind == Init /\ [][NextRewind]_vars

(* ----------------------- the scanner left running --------------------- *)
\* the process is not killed
NextLive ==
  \/ MineBlock
  \/ InitializeDatabase
  \/ InitialScan
  \/ ContinuousMonitoring
  \/ FetchBlock
  \/ SavePayload
  \/ UpdateLastProcessedBlock

\* every await of the scanner returns and every sleep ends: a step of the
\* process that can be taken is taken
Fairness ==
  /\ WF_vars(InitializeDatabase)
  /\ WF_vars(InitialScan)
  /\ WF_vars(ContinuousMonitoring)
  /\ WF_vars(FetchBlock)
  /\ WF_vars(SavePayload)
  /\ WF_vars(UpdateLastProcessedBlock)

SpecLive == Init /\ [][NextLive]_vars /\ Fairness

(* ------------------- the scanner without failures --------------------- *)
\* the database is fresh, and no node or database call will fail and the
\* process will not be killed: both budgets are spent
InitRich ==
  /\ chain = <<>>
  /\ tokens = {}
  /\ transactions = {}
  /\ balances = {}
  /\ indexer_state = NoRow
  /\ pc = "start"
  /\ currentHeight = 0
  /\ blockHeight = 0
  /\ pending = <<>>
  /\ drc20Transactions = <<>>
  /\ blockOk = TRUE
  /\ savedHeights = {}
  /\ firstStartBlock = 0
  /\ restarts = MaxRestarts
  /\ failures = MaxFailures
  /\ site_transactions = {}
  /\ verification_stats = <<>>
  /\ verification = NoCall
  /\ drc20_transactions = NoTable
  /\ recorded = NoCall
  /\ opReturnHex = NoCall
  /\ parsed = NoCall
  /\ classParsed = NoCall

\* the node accepts a new block of the richer chain
MineRichBlock ==
  /\ Len(chain) < MaxBlocks
  /\ \E shape \in RichBlocks :
       chain' = Append(chain, MakeRichBlock(NodeHeight + 1, shape))
  /\ UNCHANGED <<ledger, indexer_state, pc, locals, history, budget>>
  /\ UNCHANGED <<audit, codec>>

NextRich ==
  \/ MineRichBlock
  \/ InitializeDatabase
  \/ InitialScan
  \/ ContinuousMonitoring
  \/ FetchBlock
  \/ SavePayload
  \/ UpdateLastProcessedBlock

SpecRich == InitRich /\ [][NextRich]_vars

(* --------------------------- verification ------------------------------ *)
\* getTransactionCounts() without a tick: for every tick with a row in
\* site_transactions or a row of transactions with is_blackdoge_tx = 1, the
\* two counts; the empty result when a query fails
getTransactionCounts(site, txs, dbOk) ==
  IF ~dbOk THEN <<>>
  ELSE LET mine == { r \in txs : r.is_blackdoge_tx = 1 }
           ticks == { r.tick : r \in site } \cup { r.tick : r \in mine }
       IN [ t \in ticks |->
              [ site |-> Cardinality({ r \in site : r.tick = t }),
                blockchain |-> Cardinality({ r \in mine : r.tick = t }) ] ]

\* the orders in which `for (const tick in counts)` may visit the ticks
Orders(ticks) ==
  { order \in [1..Cardinality(ticks) -> ticks] :
      \A t \in ticks : \E i \in 1..Cardinality(ticks) : order[i] = t }

\* the rows verifyTransactionCounts inserts, and pushes to details
VerificationRows(counts, order) ==
  [ i \in 1..Len(order) |->
      [ tick |-> order[i],
        site_count |-> counts[order[i]].site,
        blockchain_count |-> counts[order[i]].blockchain,
        is_verified |-> counts[order[i]].site = counts[order[i]].blockchain ] ]

\* number of verifyTransactionCounts calls made
Calls == IF verification = NoCall THEN 0 ELSE verification.call

\* the ticks the site records transactions of
SiteTicks == { <<"D","O","G">>, CAT }

\* the site adds a row to site_transactions (txid is UNIQUE)
SiteInsert ==
  /\ Cardinality(site_transactions) < MaxSiteRows
  /\ \E tick \in SiteTicks :
       site_transactions' = site_transactions \cup
         { [ txid |-> <<0, Cardinality(site_transactions) + 1>>,
             tick |-> tick, operation |-> "mint" ] }
  /\ UNCHANGED <<chain, ledger, indexer_state, pc, locals, history, budget>>
  /\ UNCHANGED <<verification_stats, verification, drc20_transactions, recorded, codec>>

\* verifyTransactionCounts(): the counts are fetched, then one row per tick
\* is inserted.  A failing query inside getTransactionCounts yields the
\* empty result; a failing INSERT ends the loop in the catch block.
VerifyTransactionCounts ==
  /\ Calls < MaxVerifications
  /\ \E outcome \in IF failures < MaxFailures
                       THEN {"ok", "queryError", "insertError"} ELSE {"ok"} :
       LET counts == getTransactionCounts(site_transactions, transactions,
                                          outcome # "queryError")
       IN \E order \in Orders(DOMAIN counts) :
            LET rows == VerificationRows(counts, order) IN
            /\ Count(outcome)
            /\ IF outcome = "insertError"
                 THEN \E k \in 1..Len(rows) :
                        /\ verification_stats' = verification_stats \o SubSeq(rows, 1, k - 1)
                        /\ verification' = [ call |-> Calls + 1, verified |-> FALSE,
                                             details |-> <<>> ]
                 ELSE /\ verification_stats' = verification_stats \o rows
                      /\ verification' =
                           [ call |-> Calls + 1,
                             verified |-> \A i \in 1..Len(rows) : rows[i].is_verified,
                             details |-> rows ]
  /\ UNCHANGED <<chain, ledger, indexer_state, pc, locals, history, restarts>>
  /\ UNCHANGED <<site_transactions, drc20_transactions, recorded, codec>>

NextAudit ==
  \/ MineBlock
  \/ InitializeDatabase
  \/ InitialScan
  \/ ContinuousMonitoring
  \/ FetchBlock
  \/ SavePayload
  \/ UpdateLastProcessedBlock
  \/ SiteInsert
  \/ VerifyTransactionCounts

\* the scanner, the site writing its records and the verification
SpecAudit == Init /\ [][NextAudit]_vars

(* ------------------------ recordSiteTransaction ------------------------ *)
\* number of recordSiteTransaction calls made
MaxRecords == 2
RecordCalls == IF recorded = NoCall THEN 0 ELSE recorded.call

\* the txids the site records
SiteTxids == { <<0, n>> : n \in 1..MaxSiteRows }

\* getTransactionCounts(tick).site: the count of the site_transactions rows
\* of tick.toUpperCase(), none when the tick has no entry
SiteCount(site, txs, tick) ==
  LET counts == getTransactionCounts({ r \in site : r.tick = toUpperCase(tick) },
                                     { r \in txs : r.tick = toUpperCase(tick) }, TRUE)
  IN IF toUpperCase(tick) \in DOMAIN counts THEN counts[toUpperCase(tick)].site ELSE 0

\* recordSiteTransaction(txid, tick, amount, operation, address): INSERT OR
\* IGNORE INTO drc20_transactions; the error of a missing table is logged
\* and thrown again
RecordSiteTransaction ==
  /\ RecordCalls < MaxRecords
  /\ \E txid \in SiteTxids, tick \in SiteTicks :
       /\ drc20_transactions' =
            IF drc20_transactions.exists
               /\ txid \notin { r.txid : r \in drc20_transactions.rows }
              THEN [ drc20_transactions EXCEPT !.rows = @ \cup
                       { [ txid |-> txid, blockHeight |-> 0, operation |-> "mint",
                           tick |-> toUpperCase(tick), amount |-> <<"1">>,
                           toAddress |-> "a1", isValid |-> 1 ] } ]
              ELSE drc20_transactions
       /\ recorded' = [ call |-> RecordCalls + 1, txid |-> txid, tick |-> tick,
                        threw |-> ~drc20_transactions.exists ]
  /\ UNCHANGED <<chain, ledger, indexer_state, pc, locals, history, budget>>
  /\ UNCHANGED <<site_transactions, verification_stats, verification, codec>>

\* a database that initializeDatabase created, with or without a table
\* drc20_transactions of another program
InitSite ==
  /\ chain = <<>>
  /\ tokens = {}
  /\ transactions = {}
  /\ balances = {}
  /\ indexer_state = NoRow
  /\ pc = "start"
  /\ currentHeight = 0
  /\ blockHeight = 0
  /\ pending = <<>>
  /\ drc20Transactions = <<>>
  /\ blockOk = TRUE
  /\ savedHeights = {}
  /\ firstStartBlock = 0
  /\ restarts = 0
  /\ failures = 0
  /\ site_transactions = {}
  /\ verification_stats = <<>>
  /\ verification = NoCall
  /\ drc20_transactions \in { NoTable, [exists |-> TRUE, rows |-> {}] }
  /\ recorded = NoCall
  /\ opReturnHex = NoCall
  /\ parsed = NoCall
  /\ classParsed = NoCall

NextSite ==
  \/ SiteInsert
  \/ RecordSiteTransaction

SpecSite == InitSite /\ [][NextSite]_vars

(* ------------------------ the parser by itself ------------------------- *)
\* valid deploy and mint objects: the fields of the protocol, all strings
\* (JSON.parse gives back the strings JSON.stringify wrote)
Ticks == { <<"D","O","G">>, <<"d","o","g">>, <<"D","o","g">>, CAT }
Amounts == { <<"1">>, <<"2">>, <<"3">>, <<"1","0">> }
SupplyPairs ==
  { pair \in Amounts \X Amounts : CastInteger(pair[2]) <= CastInteger(pair[1]) }
\* the deploy of the README: 79 bytes of JSON
ReadmeDeploy ==
  [ p |-> "drc-20", op |-> "deploy", tick |-> <<"D","O","G","E">>,
    max |-> <<"1","0","0","0","0","0","0","0","0","0","0","0">>,
    lim |-> <<"1","0","0","0","0","0","0">> ]
ValidOperations ==
  { [p |-> "drc-20", op |-> "deploy", tick |-> tick, max |-> pair[1], lim |-> pair[2]] :
      tick \in Ticks, pair \in SupplyPairs }
  \cup { [p |-> "drc-20", op |-> "mint", tick |-> tick, amt |-> amt] :
           tick \in Ticks, amt \in Amounts }
  \cup { ReadmeDeploy }

\* the push forms that can carry the JSON of obj: a direct push holds up to
\* MaxDirectPush bytes, a 0x4c push any length that fits its one length byte
PushForms(obj) ==
  IF ByteLength(obj) <= MaxDirectPush THEN {"direct", "pushdata1"} ELSE {"pushdata1"}

\* a script carrying a valid operation is about to be parsed
InitCodec ==
  /\ chain = <<>>
  /\ tokens = {}
  /\ transactions = {}
  /\ balances = {}
  /\ indexer_state = NoRow
  /\ pc = "start"
  /\ currentHeight = 0
  /\ blockHeight = 0
  /\ pending = <<>>
  /\ drc20Transactions = <<>>
  /\ blockOk = TRUE
  /\ savedHeights = {}
  /\ firstStartBlock = 0
  /\ restarts = 0
  /\ failures = 0
  /\ site_transactions = {}
  /\ verification_stats = <<>>
  /\ verification = NoCall
  /\ drc20_transactions = NoTable
  /\ recorded = NoCall
  /\ \E obj \in ValidOperations :
       \E form \in PushForms(obj) : opReturnHex = EncodeScript(obj, form)
  /\ parsed = NoCall
  /\ classParsed = NoCall

\* parseDRC20FromHex(opReturnHex) is called
ParseScript ==
  /\ parsed = NoCall
  /\ parsed' = parseDRC20FromHex(opReturnHex)
  /\ UNCHANGED <<chain, ledger, indexer_state, pc, locals, history, budget>>
  /\ UNCHANGED <<audit, opReturnHex, classParsed>>

NextCodec == ParseScript

SpecCodec == InitCodec /\ [][NextCodec]_vars

(* ------------------------- any script, parsed -------------------------- *)
\* JSON texts a script may carry
SampleObjects ==
  { [p |-> "drc-20", op |-> "mint", tick |-> <<"d","o","g">>, amt |-> <<"3">>],
    ReadmeDeploy,
    [p |-> "drc20", op |-> "mint", tick |-> CAT, amt |-> <<"1">>],
    [p |-> "drc-20", op |-> "burn", tick |-> CAT, amt |-> <<"1">>],
    [p |-> "brc-20", op |-> "mint", tick |-> CAT, amt |-> <<"1">>],
    [p |-> "drc-20", op |-> "transfer", tick |-> CAT, amt |-> <<"1">>] }

\* OP_PUSHDATA2 and OP_DUP
OP_PUSHDATA2 == 77
OP_DUP == 118

\* what may stand in front of a text of len bytes: nothing, the opcode
\* alone, a direct push, a 0x4c push, a 0x4d push with two length bytes,
\* pushes declaring another length, and another opcode
Heads(len) ==
  { <<>>, <<OP_RETURN>>, <<OP_RETURN, len>>, <<OP_RETURN, OP_PUSHDATA1, len>>,
    <<OP_RETURN, OP_PUSHDATA2, len, 0>>, <<OP_RETURN, len - 1>>,
    <<OP_RETURN, OP_PUSHDATA1, len + 1>>, <<OP_DUP, len>> }

\* bytes of a second push after the text: none, or the opcode 0x09 (a tab)
\* pushing nine spaces
Pads == {0, 10}

\* a script whose text is followed by pad bytes of whitespace
PaddedScript(head, obj, pad) ==
  Script(head, IF pad = 0 THEN JsonObject(obj)
               ELSE [kind |-> "object", obj |-> obj, pad |-> pad])

\* number of bytes after the push header
FollowingBytes(hex) ==
  ByteLength(hex.text.obj) + (IF "pad" \in DOMAIN hex.text THEN hex.text.pad ELSE 0)

Scripts ==
  { PaddedScript(head, obj, pad) :
      head \in UNION { Heads(ByteLength(o)) : o \in SampleObjects },
      obj \in SampleObjects, pad \in Pads }

InitParse ==
  /\ chain = <<>>
  /\ tokens = {}
  /\ transactions = {}
  /\ balances = {}
  /\ indexer_state = NoRow
  /\ pc = "start"
  /\ currentHeight = 0
  /\ blockHeight = 0
  /\ pending = <<>>
  /\ drc20Transactions = <<>>
  /\ blockOk = TRUE
  /\ savedHeights = {}
  /\ firstStartBlock = 0
  /\ restarts = 0
  /\ failures = 0
  /\ site_transactions = {}
  /\ verification_stats = <<>>
  /\ verification = NoCall
  /\ drc20_transactions = NoTable
  /\ recorded = NoCall
  /\ opReturnHex \in Scripts
  /\ parsed = NoCall
  /\ classParsed = NoCall

\* parseDRC20Json(opReturnHex) is called
ParseClassScript ==
  /\ classParsed = NoCall
  /\ classParsed' = parseDRC20Json(opReturnHex)
  /\ UNCHANGED <<chain, ledger, indexer_state, pc, locals, history, budget>>
  /\ UNCHANGED <<audit, opReturnHex, parsed>>

NextParse ==
  \/ ParseScript
  \/ ParseClassScript

SpecParse == InitParse /\ [][NextParse]_vars

(* ------------------------ derived ledger views ------------------------- *)
\* the tables after saving the payloads `found` in order, every database
\* call succeeding: what the output loop of scanBlockRange does to one block
RECURSIVE SaveAll(_, _, _)
SaveAll(tks, txs, found) ==
  IF found = <<>> THEN [tokens |-> tks, transactions |-> txs]
  ELSE LET after == saveTransaction(tks, txs, Head(found).blockHeight,
                                    Head(found).txid, Head(found).data, TRUE)
       IN SaveAll(after.tokens, after.transactions, Tail(found))

\* the payload `found` has left its row in the ledger
Recorded(found) ==
  \/ /\ found.data.op = "deploy"
     /\ \E t \in tokens : t.deploy_txid = found.txid /\ t.tick = toUpperCase(found.data.tick)
  \/ /\ found.data.op = "mint"
     /\ \E r \in transactions : r.txid = found.txid /\ r.raw_json = found.data

\* saving the payload `found` now would add a row to the ledger
WouldChange(found) ==
  LET after == saveTransaction(tokens, transactions, found.blockHeight,
                               found.txid, found.data, TRUE)
  IN after.tokens # tokens \/ after.transactions # transactions

\* the payloads of the chain from `height` to the tip, in chain order
RECURSIVE ChainPayloadsFrom(_)
ChainPayloadsFrom(height) ==
  IF height > NodeHeight THEN <<>>
  ELSE BlockPayloads(BlockAt(height), height) \o ChainPayloadsFrom(height + 1)

\* the deploy payloads of `tick` (upper case) in chain order
DeploysOf(tick) ==
  SelectSeq(ChainPayloadsFrom(FirstRunFloor),
            LAMBDA f : f.data.op = "deploy" /\ toUpperCase(f.data.tick) = tick)

\* the scanner is inside scanBlockRange, before updateLastProcessedBlock
InRange == pc \in {"fetch", "outputs", "update"}

(* ------------------------------- claims -------------------------------- *)

\* C1: in every reachable ledger state, for every deployed tick, the total of
\* the mints recorded as valid (getTokenStats(tick).totalMinted) is at most
\* the tick's max supply.
C1_MintedWithinMaxSupply ==
  \A t \in tokens :
    getTokenStats(transactions, t.tick).totalMinted <= CastInteger(t.max_supply)

\* C2: supply conservation: in every reachable ledger state, for every
\* deployed tick, the balances of the tick sum to its minted total.
C2_SupplyConservation ==
  \A t \in tokens :
    TickBalance(balances, t.tick) = getTokenStats(transactions, t.tick).totalMinted

\* C3: whenever the stored checkpoint height is h, every block from the
\* first scan's start height through h was fetched and had every payload
\* saved; a failed fetch or save keeps the checkpoint below that height.
C3_CheckpointCoversSavedBlocks ==
  indexer_state # NoRow =>
    \A h \in firstStartBlock..indexer_state.last_block_height : h \in savedHeights

\* C4: a height whose payloads have all been saved, and have their rows in
\* the ledger, is never handed to saveTransaction again, wherever a crash
\* and restart occur.
C4_NeverReprocessed ==
  ~( /\ pc = "outputs"
     /\ blockHeight \in savedHeights
     /\ \E j \in 1..Len(pending) : Recorded(pending[j]) )

\* C5: replaying a block (saving its payloads a second time after a crash
\* before the checkpoint advanced) leaves tokens and recorded mints as they
\* were after the first pass.
C5_ReplayIdempotent ==
  pc = "fetch" =>
    LET found == BlockPayloads(BlockAt(blockHeight), blockHeight)
        once == SaveAll(tokens, transactions, found)
        twice == SaveAll(once.tokens, once.transactions, found)
    IN twice = once

\* C6: a reader of the ledger (every state is one a reader can see: each
\* INSERT commits by itself) never sees some but not all of the payloads of
\* one block.
C6_NoPartialBlockVisible ==
  ~( /\ pc = "outputs"
     /\ \E i \in 1..Len(drc20Transactions) :
          /\ drc20Transactions[i].blockHeight = blockHeight
          /\ Recorded(drc20Transactions[i])
     /\ \E j \in 1..Len(pending) : WouldChange(pending[j]) )

\* C7: a payload of block h is applied only when the block's previous-hash
\* equals the hash recorded in the checkpoint.
C7_ContinuityCheckedBeforeApply ==
  \A i \in 1..Len(drc20Transactions) :
    (InRange /\ indexer_state # NoRow /\ Recorded(drc20Transactions[i])) =>
      BlockAt(drc20Transactions[i].blockHeight).previousblockhash
        = indexer_state.last_block_hash

\* C8 (state part): every token record is the one the first deploy of its
\* tick in chain order creates.
C8_FirstDeployRecorded ==
  \A t \in tokens :
    LET first == Head(DeploysOf(t.tick)) IN
    /\ t.deploy_txid = first.txid
    /\ t.deploy_block = first.blockHeight
    /\ t.max_supply = OrZero(first.data, "max")
    /\ t.mint_limit = OrZero(first.data, "lim")

\* C8 (step part): a token record, once created, is never changed or deleted.
C8_TokenRecordsKept == \A t \in tokens : t \in tokens'

\* C8: a token record is created by the first deploy of its tick in chain
\* order (height, transaction index, output index) and never changed or
\* deleted afterwards.
C8_FirstDeployWins == [](C8_FirstDeployRecorded) /\ [][C8_TokenRecordsKept]_vars

C10_MintAboveLimitRejected ==
  [][ ( /\ pc = "outputs"
        /\ Head(pending).data.op = "mint"
        /\ isTokenDeployed(tokens, Head(pending).data.tick)
        /\ CastInteger(OrZero(Head(pending).data, "amt"))
             > CastInteger(getToken(tokens, Head(pending).data.tick).mint_limit) )
      => (transactions' = transactions /\ balances' = balances) ]_vars

\* the payload at position j of `found` is a deploy and the next payload is
\* a mint of the same tick in the same transaction, the transaction's first
DeployThenMint(found, j) ==
  /\ j + 1 <= Len(found)
  /\ found[j].data.op = "deploy"
  /\ found[j + 1].data.op = "mint"
  /\ found[j + 1].txid = found[j].txid
  /\ toUpperCase(found[j + 1].data.tick) = toUpperCase(found[j].data.tick)
  /\ \A k \in 1..j : found[k].txid = found[j].txid => found[k].data.op # "mint"

\* C13: when the scanner has gone through a transaction's deploy and the
\* mint of the same tick in the next payload output, the token is deployed
\* and the mint is among the rows the tick's minted total is summed over.
C13_DeployThenMintSameTx ==
  \A j \in 1..Len(drc20Transactions) :
    DeployThenMint(drc20Transactions, j) =>
      /\ isTokenDeployed(tokens, drc20Transactions[j].data.tick)
      /\ \E r \in ValidMints(transactions, drc20Transactions[j].data.tick) :
           /\ r.txid = drc20Transactions[j + 1].txid
           /\ r.raw_json = drc20Transactions[j + 1].data

\* the deploy parameters the protocol admits: max and lim present with
\* 0 < lim <= max
ValidSupplyParams(data) ==
  /\ Truthy(data, "max")
  /\ Truthy(data, "lim")
  /\ 0 < CastInteger(data.lim)
  /\ CastInteger(data.lim) <= CastInteger(data.max)

\* C11: saving a deploy whose parameters do not satisfy 0 < lim <= max (max
\* or lim missing included) creates no token record.
C11_InvalidSupplyParamsRejected ==
  [][ ( /\ pc = "outputs"
        /\ Head(pending).data.op = "deploy"
        /\ ~ValidSupplyParams(Head(pending).data) )
      => tokens' = tokens ]_vars

(* ------------------- operations as the protocol binds them ------------- *)
\* the indexes of the outputs of tx that carry a payload, in output order
PayloadIndexes(tx) ==
  SelectSeq([i \in 1..Len(tx.vout) |-> i], LAMBDA i :
    /\ tx.vout[i].scriptPubKey.type = "nulldata"
    /\ parseDRC20FromHex(tx.vout[i].scriptPubKey.hex) # Null)

\* the address of the first output after output i that is not a null-data
\* output: the output the payload at i is bound to; NoAddress without one
NoAddress == "none"
BoundAddress(tx, i) ==
  LET later == { j \in (i + 1)..Len(tx.vout) : tx.vout[j].scriptPubKey.type # "nulldata" }
  IN IF later = {} THEN NoAddress
     ELSE tx.vout[CHOOSE j \in later : \A k \in later : j <= k].scriptPubKey.addresses[1]

\* the address the inputs of tx are spent from
Sender(tx) == IF "vin" \in DOMAIN tx THEN tx.vin[1].address ELSE NoAddress

\* the payloads of tx with the output each is bound to and the sender
TxOperations(tx, height) ==
  LET idx == PayloadIndexes(tx) IN
  [ k \in 1..Len(idx) |->
      [ blockHeight |-> height,
        txid |-> tx.txid,
        data |-> parseDRC20FromHex(tx.vout[idx[k]].scriptPubKey.hex),
        bytes |-> ByteLength(tx.vout[idx[k]].scriptPubKey.hex.text.obj),
        bound |-> BoundAddress(tx, idx[k]),
        from |-> Sender(tx),
        alone |-> Len(idx) = 1 ] ]

RECURSIVE OperationsFrom(_, _, _)
OperationsFrom(txs, from, height) ==
  IF from > Len(txs) THEN <<>>
  ELSE TxOperations(txs[from], height) \o OperationsFrom(txs, from + 1, height)

\* the operations of the chain from `height` to the tip, in chain order
RECURSIVE ChainOperationsFrom(_)
ChainOperationsFrom(height) ==
  IF height > NodeHeight THEN <<>>
  ELSE OperationsFrom(BlockAt(height).tx, 1, height) \o ChainOperationsFrom(height + 1)

\* the operations of `tick` (upper case) in chain order
OperationsOf(tick) ==
  SelectSeq(ChainOperationsFrom(FirstRunFloor),
            LAMBDA o : toUpperCase(o.data.tick) = tick)

RECURSIVE SumAmt(_)
SumAmt(ops) ==
  IF ops = <<>> THEN 0
  ELSE CastInteger(OrZero(Head(ops).data, "amt")) + SumAmt(Tail(ops))

\* the balance of one address for one tick in the balances table
AddressBalance(bals, tick, address) ==
  SumBalance({ b \in bals : b.tick = toUpperCase(tick) /\ b.address = address })

\* the scanner is idle with every block of the chain processed, each with
\* all its payloads saved, and the checkpoint at the tip
CaughtUp ==
  /\ pc = "monitor"
  /\ indexer_state # NoRow
  /\ indexer_state.last_block_height = NodeHeight
  /\ \A h \in FirstRunFloor..NodeHeight : h \in savedHeights

\* the operations of a tick are a valid deploy followed by one or more
\* valid mints, each alone in its transaction and all bound to one address
DeployThenMints(ops) ==
  /\ Len(ops) >= 2
  /\ ops[1].data.op = "deploy"
  /\ ValidSupplyParams(ops[1].data)
  /\ \A i \in 2..Len(ops) :
       /\ ops[i].data.op = "mint"
       /\ ops[i].alone
       /\ ops[i].bytes <= MaxPayloadBytes
       /\ 0 < CastInteger(OrZero(ops[i].data, "amt"))
       /\ CastInteger(OrZero(ops[i].data, "amt")) <= CastInteger(ops[1].data.lim)
       /\ ops[i].bound # NoAddress
       /\ ops[i].bound = ops[2].bound
  /\ SumAmt(Tail(ops)) <= CastInteger(ops[1].data.max)

\* C12: once the chain is processed, a tick whose operations are a valid
\* deploy followed by k valid mints in separate transactions bound to the
\* same address has minted total equal to the sum of the k amounts, and that
\* address's balance for the tick equals the same sum.
C12_MintsCreditBoundAddress ==
  CaughtUp =>
    \A t \in tokens :
      LET ops == OperationsOf(t.tick) IN
      DeployThenMints(ops) =>
        /\ getTokenStats(transactions, t.tick).totalMinted = SumAmt(Tail(ops))
        /\ AddressBalance(balances, t.tick, ops[2].bound) = SumAmt(Tail(ops))

\* the operations of a tick are a valid deploy, valid mints bound to one
\* address, and last a transfer sent by that address of no more than it
\* was minted, bound to another address
MintsThenTransfer(ops) ==
  LET last == ops[Len(ops)]
      before == SubSeq(ops, 1, Len(ops) - 1)
  IN /\ Len(ops) >= 3
     /\ DeployThenMints(before)
     /\ last.data.op = "transfer"
     /\ last.alone
     /\ last.from = ops[2].bound
     /\ last.bound # NoAddress
     /\ last.bound # last.from
     /\ 0 < CastInteger(OrZero(last.data, "amt"))
     /\ CastInteger(OrZero(last.data, "amt")) <= SumAmt(Tail(before))

\* C14: once the chain is processed, a transfer of amt of a deployed tick,
\* sent by the address its mints were bound to (balance at least amt), has
\* taken amt from the sender's balance and added amt to the balance of the
\* address its payload is bound to; the minted total is that of the mints.
C14_TransferMovesBalance ==
  CaughtUp =>
    \A t \in tokens :
      LET ops == OperationsOf(t.tick)
          last == ops[Len(ops)]
          minted == SumAmt(SubSeq(ops, 2, Len(ops) - 1))
          amt == CastInteger(OrZero(last.data, "amt"))
      IN MintsThenTransfer(ops) =>
           /\ AddressBalance(balances, t.tick, last.from) = minted - amt
           /\ AddressBalance(balances, t.tick, last.bound) = amt
           /\ getTokenStats(transactions, t.tick).totalMinted = minted

\* C15: every mint counted in a minted total comes from a payload output
\* that a non-payload output follows in the same transaction.
C15_MintNeedsBoundOutput ==
  \A r \in transactions :
    (r.operation = "mint" /\ r.is_valid = 1) =>
      \E i \in 1..Len(ChainOperationsFrom(FirstRunFloor)) :
        LET o == ChainOperationsFrom(FirstRunFloor)[i] IN
        /\ o.txid = r.txid
        /\ o.data = r.raw_json
        /\ o.bound # NoAddress

\* C16: every payload carrying the protocol tag that was handed to
\* saveTransaction and rejected (it left no token or mint row) has a row
\* recording it as an invalid operation.
C16_RejectedPayloadRecorded ==
  \A i \in 1..Len(drc20Transactions) :
    LET d == drc20Transactions[i] IN
    \/ Recorded(d)
    \/ \E r \in transactions : r.txid = d.txid /\ r.is_valid = 0

\* C17: a payload longer than MaxPayloadBytes leaves no token record and no
\* mint record (balances are never written at all).
C17_LongPayloadNoOperation ==
  \A i \in 1..Len(ChainOperationsFrom(FirstRunFloor)) :
    LET o == ChainOperationsFrom(FirstRunFloor)[i] IN
    o.bytes > MaxPayloadBytes => ~Recorded(o)

\* C18: a call of verifyTransactionCounts writes one verification record per
\* tick, with is_verified true exactly when the tick's site count equals its
\* blockchain count, returns verified = true exactly when the counts are
\* equal for every tick, and changes no token, mint or balance record.
C18_VerificationRecords ==
  [][ verification' # verification =>
        LET counts == getTransactionCounts(site_transactions, transactions, TRUE)
            new == SubSeq(verification_stats', Len(verification_stats) + 1,
                          Len(verification_stats'))
        IN /\ Len(new) = Cardinality(DOMAIN counts)
           /\ \A t \in DOMAIN counts :
                \E i \in 1..Len(new) :
                  /\ new[i].tick = t
                  /\ new[i].is_verified = (counts[t].site = counts[t].blockchain)
           /\ verification'.verified =
                (\A t \in DOMAIN counts : counts[t].site = counts[t].blockchain)
           /\ UNCHANGED ledger ]_vars

\* the operation whose encoding the script opReturnHex is
Encoded ==
  CHOOSE obj \in ValidOperations :
    \E form \in PushForms(obj) : opReturnHex = EncodeScript(obj, form)

C20_FirstFromGenesis == firstStartBlock \in {0, FirstRunFloor}

\* C20 (steps): a scan entered while a checkpoint h is stored starts at
\* h + 1, and a scan entered after an earlier one starts at the height after
\* the last one that scan processed, so that no height is repeated or
\* skipped.
C20_ResumeAndAdvance ==
  (pc \in {"initialScan", "monitor"} /\ pc' = "fetch") =>
    /\ indexer_state # NoRow => blockHeight' = indexer_state.last_block_height + 1
    /\ (pc = "monitor" /\ currentHeight # 0) => blockHeight' = currentHeight + 1

\* C20: on start with a stored checkpoint h the first height processed is
\* h + 1; with no stored checkpoint it is the fixed configured height,
\* whatever the chain's current height; from there heights are processed in
\* strictly increasing order, one at a time, none skipped.
C20_ScanOrder == [](C20_FirstFromGenesis) /\ [][C20_ResumeAndAdvance]_vars

\* C21: a node call that fails while a height is being scanned is followed
\* by a retry of that height or by a halt, never by the next height: the
\* loop variable stays where it is.
C21_FailedCallNotSkipped ==
  [][ (pc = "fetch" /\ failures' = failures + 1) => blockHeight' = blockHeight ]_vars

\* the amt of a mint is a positive amount within the token's mint limit
ValidMintAmount(data, token) ==
  /\ Truthy(data, "amt")
  /\ 0 < CastInteger(data.amt)
  /\ CastInteger(data.amt) <= CastInteger(token.mint_limit)

\* C22: once the chain is processed, a deployed tick whose only mints are
\* the valid mints of one transaction (each bound to an output, their sum
\* within max supply) has all their amounts in its minted total.
C22_EveryMintOfTxApplied ==
  CaughtUp =>
    \A t \in tokens :
      LET ops == OperationsOf(t.tick)
          mints == SelectSeq(ops, LAMBDA o : o.data.op = "mint")
      IN ( /\ ValidSupplyParams(Head(ops).data)
           /\ Head(ops).data.op = "deploy"
           /\ Len(mints) >= 2
           /\ \A i \in 1..Len(mints) :
                /\ mints[i].txid = mints[1].txid
                /\ mints[i].bound # NoAddress
                /\ mints[i].bytes <= MaxPayloadBytes
                /\ ValidMintAmount(mints[i].data, t)
           /\ SumAmt(mints) <= CastInteger(t.max_supply) )
         => getTokenStats(transactions, t.tick).totalMinted = SumAmt(mints)

\* the script is 0x6a, then a length byte of at most MaxDirectPush or 0x4c
\* and a length byte, the length being that of the bytes that follow
WellFormedPush(hex) ==
  /\ \/ Len(hex.head) = 2 /\ hex.head[2] <= MaxDirectPush
     \/ Len(hex.head) = 3 /\ hex.head[2] = OP_PUSHDATA1
  /\ hex.head[1] = OP_RETURN
  /\ hex.head[Len(hex.head)] = FollowingBytes(hex)

\* C23: parseDRC20FromHex yields a payload only from a script that starts
\* with 0x6a followed by a length byte <= 75, or 0x4c and one length byte,
\* whose declared length is the number of bytes that follow.
C23_PayloadOnlyFromWellFormedPush ==
  (parsed # NoCall /\ parsed # Null) => WellFormedPush(opReturnHex)

\* C24: a payload whose p is not the protocol tag or whose op is not deploy,
\* mint or transfer is not counted among the found operations: every entry
\* of drc20Transactions carries the tag and one of the three operations.
C24_FoundOperationsAreProtocol ==
  \A i \in 1..Len(drc20Transactions) :
     LET data == drc20Transactions[i].data IN
       /\ data.p = "drc-20"
       /\ data.op \in {"deploy", "mint", "transfer"}

\* C25: a mint whose amt is missing, zero, negative or not a base-10 integer
\* is never recorded as a valid operation: every valid mint row holds a
\* positive amount, so such a mint adds nothing to the total or the count.
C25_ValidMintRowsHavePositiveAmount ==
  \A r \in transactions :
     (r.operation = "mint" /\ r.is_valid = 1) => CastInteger(r.amount) > 0

\* the blockchain count getTransactionCounts reports for a tick (none when
\* the tick has no entry in the result)
BlockchainCount(tick) ==
  LET counts == getTransactionCounts(site_transactions, transactions, TRUE)
  IN IF tick \in DOMAIN counts THEN counts[tick].blockchain ELSE 0

\* C26: the blockchain count reported for a tick equals the number of valid
\* operations the scanner saved for that tick.
C26_BlockchainCountIsSavedOperations ==
  \A r \in transactions :
     BlockchainCount(r.tick) =
       Cardinality({ s \in transactions : s.tick = r.tick /\ s.is_valid = 1 })

\* C27: a recordSiteTransaction call that succeeds for a txid not recorded
\* before raises the site count getTransactionCounts(tick) reports for the
\* tick by exactly one.
C27_RecordRaisesSiteCount ==
  [][ ( /\ recorded' # recorded
        /\ ~recorded'.threw
        /\ recorded'.txid \notin { r.txid : r \in drc20_transactions.rows }
        /\ recorded'.txid \notin { r.txid : r \in site_transactions } )
      => SiteCount(site_transactions', transactions', recorded'.tick)
           = SiteCount(site_transactions, transactions, recorded'.tick) + 1 ]_vars

\* C28: the stored checkpoint height never decreases, whatever the scanner,
\* the node and the database do.
C28_CheckpointNeverDecreases ==
  [][ (indexer_state # NoRow /\ indexer_state' # NoRow)
        => indexer_state'.last_block_height >= indexer_state.last_block_height ]_vars

\* the stored checkpoint is the height of the node's tip
CheckpointAtTip ==
  indexer_state # NoRow /\ indexer_state.last_block_height = NodeHeight

\* C29: once the scanner has opened its database, whatever calls of
\* initialScan and of the monitoring loop fail on the way, the checkpoint
\* eventually reaches the height the chain stays at and remains there: the
\* loop does not end and the checkpoint is not stuck.
C29_CheckpointReachesTip ==
  (pc = "initialScan") ~> [](pc = "monitor" /\ CheckpointAtTip)

\* a call has failed, the loop is still running and the checkpoint is at
\* the tip of a chain with blocks
C29_Witness ==
  /\ pc = "monitor"
  /\ failures = MaxFailures
  /\ Len(chain) = MaxBlocks
  /\ CheckpointAtTip

\* the node types a script nulldata when it starts with OP_RETURN
IsNullData(hex) == Len(hex.head) >= 1 /\ hex.head[1] = OP_RETURN

\* C30: parseDRC20Json and parseDRC20FromHex classify every null-data
\* script identically: both return the same object, or both return null.
C30_ParsersAgree ==
  (parsed # NoCall /\ classParsed # NoCall /\ IsNullData(opReturnHex))
    => parsed = classParsed

====
